---- MODULE Spec2Model ----
(***************************************************************************)
(* The job-lifecycle engine of package que: a PostgreSQL-backed job queue  *)
(* whose workers claim jobs under session-level advisory locks, run the    *)
(* handler registered for the job's Type, and resolve the job by delete,   *)
(* retry update or reschedule update on the connection that holds the      *)
(* lock.  The package documentation (doc.go) fixes the protocol; the       *)
(* client, locker, worker and pool are modelled after their design.        *)
(***************************************************************************)
EXTENDS Integers, FiniteSets, Sequences, TLC

\* ------------------------------------------------------------------ bounds
MaxJobs == 2
MaxTime == 2
MaxShutdownCalls == 1
MaxDrops == 1

\* --------------------------------------------------------------- constants
\* que.NewWorkerPool(qc, wm, 2): the pool of the package example.
NumWorkers == 2
\* The handler of the retry scenario returns an error this many times
\* before it succeeds.
FlakyFailures == 3
\* backoff(n) = min(BackoffBase * 2^n, BackoffMax), in clock ticks.
BackoffBase == 1
BackoffMax == 3
\* The priority a job gets when the caller sets none.
DefaultPriority == 100

PoolWorkers == 1..NumWorkers
Workers == PoolWorkers
\* The connection of a worker of another process on the same store.
ForeignConns == {NumWorkers + 1}
Conns == Workers \cup ForeignConns
\* Goroutines outside the handlers that call workers.Shutdown().
ExtCallers == {NumWorkers + 1, NumWorkers + 2}
Callers == PoolWorkers \cup ExtCallers

IDs == 1..MaxJobs
NoJob == 0
NoTime == -1
NoPriority == -1
EnqError == -1
\* The WorkMap of the running process: job type -> handler.
WorkMap == {"PrintName"}
JobTypes == {"PrintName", "Unknown"}
NoError == ""
HandlerError == "handler error"
UnknownTypeError == "unknown job type"
PanicError == "handler panic"

VARIABLES
  now,       \* the clock of the store
  nextID,    \* the next ID the store assigns on insert
  jobs,      \* the job table: ID -> row, for the rows present
  locks,     \* the advisory locks held: <<connection, job ID>>
  enqRet,    \* what the last Enqueue returned: the ID, or EnqError
  pc,        \* each worker's position in its loop
  cur,       \* the ID of the job each worker has claimed, or NoJob
  result,    \* how the worker's cycle went: what it resolves the job by
  connAlive, \* whether the connection a worker leased is still open
  started,   \* workers.Start() was called
  stopping,  \* the pool's stop signal
  inCall,    \* callers inside workers.Shutdown()
  calls,     \* Shutdown calls that returned, per caller
  retried,   \* history: retry updates the store applied, per job
  drops      \* history: connection losses counted where they are bounded

vars == <<now, nextID, jobs, locks, enqRet, pc, cur, result, connAlive,
          started, stopping, inCall, calls, retried, drops>>

storeVars == <<nextID, jobs, enqRet>>
workerVars == <<pc, cur, result, connAlive>>
poolVars == <<started, stopping, inCall, calls>>
histVars == <<retried, drops>>

\* ------------------------------------------------------------ pure helpers
RECURSIVE Pow2(_)
Pow2(n) == IF n = 0 THEN 1 ELSE 2 * Pow2(n - 1)

Min(a, b) == IF a <= b THEN a ELSE b

\* The delay before a job that failed errorCount times is eligible again.
backoff(errorCount) == Min(BackoffBase * Pow2(errorCount), BackoffMax)

BeforeByID(j, k) == j < k

\* The claim query's ORDER BY: priority, run_at, job_id.
Before(j, k) ==
  \/ jobs[j].Priority < jobs[k].Priority
  \/ /\ jobs[j].Priority = jobs[k].Priority
     /\ jobs[j].RunAt < jobs[k].RunAt
  \/ /\ jobs[j].Priority = jobs[k].Priority
     /\ jobs[j].RunAt = jobs[k].RunAt
     /\ j < k

EligibleAtAnyTime(j) == j \in DOMAIN jobs

EligibleOnlyWhenPast(j) == j \in DOMAIN jobs /\ jobs[j].RunAt < now

\* The rows the claim query considers: run_at <= now().
Eligible(j) == j \in DOMAIN jobs /\ jobs[j].RunAt <= now

TryAdvisoryLockUnchecked(c, j) == TRUE

\* pg_try_advisory_lock(job_id) on connection c: fails when another
\* connection holds the lock.
TryAdvisoryLock(c, j) == \A d \in Conns : <<d, j>> \in locks => d = c

\* The claim query: walk the eligible rows in order, return the first one
\* whose advisory lock connection c gets; NoJob when there is none.
RECURSIVE ScanNext(_, _)
ScanNext(c, S) ==
  IF S = {} THEN NoJob
  ELSE LET j == CHOOSE x \in S : \A y \in S \ {x} : Before(x, y)
       IN IF TryAdvisoryLock(c, j) THEN j ELSE ScanNext(c, S \ {j})

ClaimNext(c) == ScanNext(c, {j \in IDs : Eligible(j)})

DropNoLocks(c) == locks

\* Releasing or closing connection c drops every advisory lock it holds.
DropLocks(c) == {l \in locks : l[1] # c}

InCycle(w) == pc[w] \in {"claimed", "releasing"}

\* ------------------------------------------------------------------- Init
Init ==
  /\ now = 0
  /\ nextID = 1
  /\ jobs = <<>>
  /\ locks = {}
  /\ enqRet = NoJob
  /\ pc = [w \in Workers |-> "notStarted"]
  /\ cur = [w \in Workers |-> NoJob]
  /\ result = [w \in Workers |-> "none"]
  /\ connAlive = [w \in Workers |-> FALSE]
  /\ started = FALSE
  /\ stopping = FALSE
  /\ inCall = [c \in Callers |-> FALSE]
  /\ calls = [c \in Callers |-> 0]
  /\ retried = [j \in IDs |-> 0]
  /\ drops = 0

\* ----------------------------------------------------------------- client
\* qc.Enqueue(j): a job without a Type is refused; RunAt and Priority get
\* their defaults; the store assigns the ID.
NewRow(type, priority, runAt, args) ==
  [Queue |-> "",
   Priority |-> IF priority = NoPriority THEN DefaultPriority ELSE priority,
   RunAt |-> IF runAt = NoTime THEN now ELSE runAt,
   Type |-> type,
   Args |-> args,
   ErrorCount |-> 0,
   LastError |-> NoError]

EnqueueUnvalidated(type, priority, runAt, args) ==
  /\ nextID <= MaxJobs
  /\ jobs' = [j \in DOMAIN jobs \cup {nextID} |->
                IF j = nextID THEN NewRow(type, priority, runAt, args)
                ELSE jobs[j]]
  /\ nextID' = nextID + 1
  /\ enqRet' = nextID
  /\ UNCHANGED <<now, locks, workerVars, poolVars, histVars>>

Enqueue(type, priority, runAt, args) ==
  /\ IF type = ""
     THEN /\ enqRet' = EnqError
          /\ UNCHANGED <<nextID, jobs>>
     ELSE /\ nextID <= MaxJobs
          /\ jobs' = [j \in DOMAIN jobs \cup {nextID} |->
                        IF j = nextID THEN NewRow(type, priority, runAt, args)
                        ELSE jobs[j]]
          /\ nextID' = nextID + 1
          /\ enqRet' = nextID
  /\ UNCHANGED <<now, locks, workerVars, poolVars, histVars>>

\* Time passes.
Tick ==
  /\ now < MaxTime
  /\ now' = now + 1
  /\ UNCHANGED <<storeVars, locks, workerVars, poolVars, histVars>>

\* Time passes while a job in the store waits for its RunAt.
LiveTick ==
  /\ \E j \in DOMAIN jobs : jobs[j].RunAt > now
  /\ now' = now + 1
  /\ UNCHANGED <<storeVars, locks, workerVars, poolVars, histVars>>

\* ------------------------------------------------------------------ worker
\* workers.Start(): launches every worker loop of the pool.
Start ==
  /\ ~started
  /\ started' = TRUE
  /\ pc' = [w \in Workers |-> "loop"]
  /\ UNCHANGED <<now, storeVars, locks, cur, result, connAlive,
                 stopping, inCall, calls, histVars>>

ClaimWhenNoHandlerRuns(w) ==
  /\ pc[w] = "loop"
  /\ ~stopping
  /\ \A v \in Workers : pc[v] # "claimed"
  /\ LET j == ClaimNext(w)
     IN IF j = NoJob
        THEN /\ pc' = [pc EXCEPT ![w] = "sleeping"]
             /\ UNCHANGED <<locks, cur, connAlive>>
        ELSE /\ locks' = locks \cup {<<w, j>>}
             /\ cur' = [cur EXCEPT ![w] = j]
             /\ connAlive' = [connAlive EXCEPT ![w] = TRUE]
             /\ pc' = [pc EXCEPT ![w] = "claimed"]
  /\ UNCHANGED <<now, storeVars, result, poolVars, histVars>>

\* Top of the loop: lease a connection and claim.  With a job the worker
\* holds its lock on that connection; with none the connection goes back
\* and the worker sleeps.
WorkerClaim(w) ==
  /\ pc[w] = "loop"
  /\ ~stopping
  /\ LET j == ClaimNext(w)
     IN IF j = NoJob
        THEN /\ pc' = [pc EXCEPT ![w] = "sleeping"]
             /\ UNCHANGED <<locks, cur, connAlive>>
        ELSE /\ locks' = locks \cup {<<w, j>>}
             /\ cur' = [cur EXCEPT ![w] = j]
             /\ connAlive' = [connAlive EXCEPT ![w] = TRUE]
             /\ pc' = [pc EXCEPT ![w] = "claimed"]
  /\ UNCHANGED <<now, storeVars, result, poolVars, histVars>>

ClaimErrorStopsWorker(w) ==
  /\ pc[w] = "loop"
  /\ ~stopping
  /\ pc' = [pc EXCEPT ![w] = "exited"]
  /\ UNCHANGED <<now, storeVars, locks, cur, result, connAlive, poolVars,
                 histVars>>

\* The claim fails with a store error (no connection to lease, the query
\* fails): the worker has no job and no lock, and pauses before it polls
\* again.
WorkerClaimError(w) ==
  /\ pc[w] = "loop"
  /\ ~stopping
  /\ pc' = [pc EXCEPT ![w] = "paused"]
  /\ UNCHANGED <<now, storeVars, locks, cur, result, connAlive, poolVars,
                 histVars>>

\* The poll interval, or the pause after a store error, has passed.
WorkerWake(w) ==
  /\ pc[w] \in {"sleeping", "paused"}
  /\ ~stopping
  /\ pc' = [pc EXCEPT ![w] = "loop"]
  /\ UNCHANGED <<now, storeVars, locks, cur, result, connAlive, poolVars,
                 histVars>>

\* The stop signal is seen where a claim would start: the loop exits.
WorkerExit(w) ==
  /\ pc[w] \in {"loop", "sleeping", "paused"}
  /\ stopping
  /\ pc' = [pc EXCEPT ![w] = "exited"]
  /\ UNCHANGED <<now, storeVars, locks, cur, result, connAlive, poolVars,
                 histVars>>

\* ----------------------------------------------------------------- resolve
DeleteNothing(j) == jobs

\* The store's statements, each run on the connection that holds the lock.
Delete(j) == [k \in DOMAIN jobs \ {j} |-> jobs[k]]

UpdateForRetry(j, errorCount, lastError, runAt) ==
  [jobs EXCEPT ![j] = [@ EXCEPT !.ErrorCount = errorCount,
                                !.LastError = lastError,
                                !.RunAt = runAt]]

UpdateForRescheduleClearsErrors(j, args, runAt) ==
  [jobs EXCEPT ![j] = [@ EXCEPT !.Args = args, !.RunAt = runAt,
                                !.ErrorCount = 0, !.LastError = NoError]]

UpdateForReschedule(j, args, runAt) ==
  [jobs EXCEPT ![j] = [@ EXCEPT !.Args = args, !.RunAt = runAt]]

RetryWithoutBump(j, lastError) ==
  UpdateForRetry(j, jobs[j].ErrorCount, lastError,
                 now + backoff(jobs[j].ErrorCount))

RetryOrDeadLetter(j, lastError) ==
  IF jobs[j].ErrorCount >= 1 THEN Delete(j)
  ELSE UpdateForRetry(j, jobs[j].ErrorCount + 1, lastError,
                      now + backoff(jobs[j].ErrorCount + 1))

RetryCountsFromZero(j, lastError) ==
  UpdateForRetry(j, 1, lastError, now + backoff(1))

\* The retry path: ErrorCount bumped, the error stored, RunAt backed off.
Retry(j, lastError) ==
  UpdateForRetry(j, jobs[j].ErrorCount + 1, lastError,
                 now + backoff(jobs[j].ErrorCount + 1))

ResolvedRescheduleFirst(j, h) ==
  IF h.resched THEN UpdateForReschedule(j, h.Args, h.RunAt)
  ELSE IF h.err THEN Retry(j, HandlerError)
  ELSE Delete(j)

\* What the worker does with what the handler returned.  h.err: it
\* returned an error; h.resched: it called j.Reschedule(h.RunAt), having
\* set j.Args to h.Args.  An error bumps ErrorCount and stores the error;
\* otherwise a requested reschedule writes the modified fields; else the
\* job is deleted.
Resolved(j, h) ==
  IF h.err THEN Retry(j, HandlerError)
  ELSE IF h.resched THEN UpdateForReschedule(j, h.Args, h.RunAt)
  ELSE Delete(j)

\* A statement on a closed connection fails and changes nothing.
StoreApplies(w) == connAlive[w] /\ cur[w] \in DOMAIN jobs

\* The handler of the claimed job is running.
HandlerRunning(w) ==
  /\ pc[w] = "claimed"
  /\ cur[w] \in DOMAIN jobs => jobs[cur[w]].Type \in WorkMap

\* How the cycle went, from what the handler returned.
Outcome(h) ==
  IF h.err THEN "error" ELSE IF h.resched THEN "resched" ELSE "ok"

\* The handler returns and the worker resolves the job.
WorkerWork(w, h) ==
  /\ pc[w] = "claimed"
  /\ ~inCall[w]
  /\ HandlerRunning(w)
  /\ pc' = [pc EXCEPT ![w] = "releasing"]
  /\ result' = [result EXCEPT ![w] = Outcome(h)]
  /\ IF StoreApplies(w)
     THEN /\ jobs' = Resolved(cur[w], h)
          /\ retried' = [retried EXCEPT ![cur[w]] =
                           IF cur[w] \notin DOMAIN jobs' THEN 0
                           ELSE IF h.err THEN @ + 1 ELSE @]
     ELSE UNCHANGED <<jobs, retried>>
  /\ UNCHANGED <<now, nextID, enqRet, locks, cur, connAlive, poolVars,
                 drops>>

UnknownTypeDropsJob(w) ==
  /\ pc[w] = "claimed"
  /\ ~HandlerRunning(w)
  /\ pc' = [pc EXCEPT ![w] = "releasing"]
  /\ result' = [result EXCEPT ![w] = "unknown"]
  /\ IF StoreApplies(w)
     THEN /\ jobs' = Delete(cur[w])
          /\ retried' = [retried EXCEPT ![cur[w]] = 0]
     ELSE UNCHANGED <<jobs, retried>>
  /\ UNCHANGED <<now, nextID, enqRet, locks, cur, connAlive, poolVars,
                 drops>>

\* The claimed job's Type has no handler: none is invoked and the job is
\* resolved on the retry path.
WorkerUnknownType(w) ==
  /\ pc[w] = "claimed"
  /\ ~HandlerRunning(w)
  /\ pc' = [pc EXCEPT ![w] = "releasing"]
  /\ result' = [result EXCEPT ![w] = "unknown"]
  /\ IF StoreApplies(w)
     THEN /\ jobs' = Retry(cur[w], UnknownTypeError)
          /\ retried' = [retried EXCEPT ![cur[w]] = @ + 1]
     ELSE UNCHANGED <<jobs, retried>>
  /\ UNCHANGED <<now, nextID, enqRet, locks, cur, connAlive, poolVars,
                 drops>>

\* The handler panics: the worker recovers, records the panic on the retry
\* path and goes on to release.
WorkerPanic(w) ==
  /\ pc[w] = "claimed"
  /\ ~inCall[w]
  /\ HandlerRunning(w)
  /\ pc' = [pc EXCEPT ![w] = "releasing"]
  /\ result' = [result EXCEPT ![w] = "panic"]
  /\ IF StoreApplies(w)
     THEN /\ jobs' = Retry(cur[w], PanicError)
          /\ retried' = [retried EXCEPT ![cur[w]] = @ + 1]
     ELSE UNCHANGED <<jobs, retried>>
  /\ UNCHANGED <<now, nextID, enqRet, locks, cur, connAlive, poolVars,
                 drops>>

ReleaseKeepsLock(w) ==
  /\ pc[w] = "releasing"
  /\ locks' = locks
  /\ connAlive' = [connAlive EXCEPT ![w] = FALSE]
  /\ cur' = [cur EXCEPT ![w] = NoJob]
  /\ result' = [result EXCEPT ![w] = "none"]
  /\ pc' = [pc EXCEPT ![w] = "loop"]
  /\ UNCHANGED <<now, storeVars, poolVars, histVars>>

ReleaseAfterSuccessOnly(w) ==
  /\ pc[w] = "releasing"
  /\ locks' = IF result[w] = "ok" THEN DropLocks(w) ELSE locks
  /\ connAlive' = [connAlive EXCEPT ![w] = FALSE]
  /\ cur' = [cur EXCEPT ![w] = NoJob]
  /\ result' = [result EXCEPT ![w] = "none"]
  /\ pc' = [pc EXCEPT ![w] = "loop"]
  /\ UNCHANGED <<now, storeVars, poolVars, histVars>>

\* The advisory lock is released and the connection goes back to the pool.
WorkerRelease(w) ==
  /\ pc[w] = "releasing"
  /\ locks' = DropLocks(w)
  /\ connAlive' = [connAlive EXCEPT ![w] = FALSE]
  /\ cur' = [cur EXCEPT ![w] = NoJob]
  /\ result' = [result EXCEPT ![w] = "none"]
  /\ pc' = [pc EXCEPT ![w] = "loop"]
  /\ UNCHANGED <<now, storeVars, poolVars, histVars>>

\* The connection a worker holds is dropped: the store releases the
\* session's advisory locks; the worker goes on and finds out at its next
\* statement.
ConnDrop(w) ==
  /\ InCycle(w)
  /\ connAlive[w]
  /\ locks' = DropLocks(w)
  /\ connAlive' = [connAlive EXCEPT ![w] = FALSE]
  /\ UNCHANGED <<now, storeVars, pc, cur, result, poolVars, histVars>>

\* A connection loss, where only finitely many of them happen.
LiveConnDrop(w) ==
  /\ InCycle(w)
  /\ connAlive[w]
  /\ drops < MaxDrops
  /\ drops' = drops + 1
  /\ locks' = DropLocks(w)
  /\ connAlive' = [connAlive EXCEPT ![w] = FALSE]
  /\ UNCHANGED <<now, storeVars, pc, cur, result, poolVars, retried>>

\* What the handlers of the scenarios return for job j: the handler of a
\* job with Args "flaky" returns an error until the job has failed
\* FlakyFailures times and then succeeds; every other handler succeeds.
ScriptedOutcome(j) ==
  [err |-> /\ j \in DOMAIN jobs
           /\ jobs[j].Args = "flaky"
           /\ jobs[j].ErrorCount < FlakyFailures,
   resched |-> FALSE, Args |-> "", RunAt |-> NoTime]

\* A worker of another process claims the next job on its own connection,
\* and later gives the lock back.
ForeignClaim(c) ==
  /\ \A l \in locks : l[1] # c
  /\ ClaimNext(c) # NoJob
  /\ locks' = locks \cup {<<c, ClaimNext(c)>>}
  /\ UNCHANGED <<now, storeVars, workerVars, poolVars, histVars>>

ForeignRelease(c) ==
  /\ \E l \in locks : l[1] = c
  /\ locks' = DropLocks(c)
  /\ UNCHANGED <<now, storeVars, workerVars, poolVars, histVars>>

\* ------------------------------------------------------------------- pool
NoWaitForLoops == TRUE

\* Every worker loop of the pool has exited (or was never launched).
AllLoopsExited == \A w \in PoolWorkers : pc[w] \in {"notStarted", "exited"}

\* workers.Shutdown() is entered: by a goroutine outside the handlers, or
\* by the handler a worker of the pool is running.  It raises the stop
\* signal.
ShutdownCall(c) ==
  /\ ~inCall[c]
  /\ calls[c] < MaxShutdownCalls
  /\ c \in PoolWorkers => HandlerRunning(c)
  /\ inCall' = [inCall EXCEPT ![c] = TRUE]
  /\ stopping' = TRUE
  /\ UNCHANGED <<now, storeVars, locks, workerVars, started, calls, histVars>>

\* workers.Shutdown() returns once every worker loop has exited.
ShutdownReturn(c) ==
  /\ inCall[c]
  /\ AllLoopsExited
  /\ inCall' = [inCall EXCEPT ![c] = FALSE]
  /\ calls' = [calls EXCEPT ![c] = @ + 1]
  /\ UNCHANGED <<now, storeVars, locks, workerVars, started, stopping,
                 histVars>>

\* ------------------------------------------------------------------- Next
\* What a caller may pass to Enqueue, and what a handler may do before it
\* returns: the full sets, and the short ones used where the pool's
\* lifecycle is what varies.
EnqueueInputs ==
  [Type : JobTypes, Priority : {NoPriority, 0}, RunAt : {NoTime, now + 1},
   Args : {"a"}]

HandlerOutcomes ==
  [err : BOOLEAN, resched : {FALSE}, Args : {""}, RunAt : {NoTime}]
    \cup [err : BOOLEAN, resched : {TRUE}, Args : {"b"}, RunAt : {0, now + 1}]

FewEnqueueInputs ==
  [Type : JobTypes \cup {""}, Priority : {NoPriority}, RunAt : {NoTime},
   Args : {"a"}]

FewHandlerOutcomes ==
  [err : BOOLEAN, resched : {FALSE}, Args : {""}, RunAt : {NoTime}]
    \cup [err : {FALSE}, resched : {TRUE}, Args : {"b"}, RunAt : {now + 1}]

\* The program: the clients, the pool's workers and its shutdown.
Next ==
  \/ \E i \in FewEnqueueInputs : Enqueue(i.Type, i.Priority, i.RunAt, i.Args)
  \/ Tick
  \/ Start
  \/ \E w \in Workers : WorkerClaim(w)
  \/ \E w \in Workers : WorkerClaimError(w)
  \/ \E w \in Workers : WorkerWake(w)
  \/ \E w \in Workers : WorkerExit(w)
  \/ \E w \in Workers, h \in FewHandlerOutcomes : WorkerWork(w, h)
  \/ \E w \in Workers : WorkerUnknownType(w)
  \/ \E w \in Workers : WorkerPanic(w)
  \/ \E w \in Workers : WorkerRelease(w)
  \/ \E w \in Workers : ConnDrop(w)
  \/ \E c \in Callers : ShutdownCall(c)
  \/ \E c \in Callers : ShutdownReturn(c)

Spec == Init /\ [][Next]_vars

\* The pool while workers.Shutdown() is not called, with the full inputs
\* and a worker of another process on the same store.
RunNext ==
  \/ \E i \in EnqueueInputs : Enqueue(i.Type, i.Priority, i.RunAt, i.Args)
  \/ Tick
  \/ Start
  \/ \E w \in Workers : WorkerClaim(w)
  \/ \E w \in Workers : WorkerWake(w)
  \/ \E w \in Workers, h \in HandlerOutcomes : WorkerWork(w, h)
  \/ \E w \in Workers : WorkerUnknownType(w)
  \/ \E w \in Workers : WorkerPanic(w)
  \/ \E w \in Workers : WorkerRelease(w)
  \/ \E w \in Workers : ConnDrop(w)
  \/ \E c \in ForeignConns : ForeignClaim(c)
  \/ \E c \in ForeignConns : ForeignRelease(c)

RunSpec == Init /\ [][RunNext]_vars

\* The scenarios of eventual completion: one worker of the pool runs, the
\* handlers are registered and return what the scenario says, Shutdown is
\* not called, jobs are enqueued with priority 0 or 5, and the scheduler is
\* fair to the clock, to Start and to every step of the worker.
LiveWorkers == {1}

LiveEnqueueInputs ==
  [Type : WorkMap, Priority : {0, 5}, RunAt : {NoTime}, Args : {"a", "flaky"}]

LiveNext ==
  \/ \E i \in LiveEnqueueInputs : Enqueue(i.Type, i.Priority, i.RunAt, i.Args)
  \/ LiveTick
  \/ Start
  \/ \E w \in LiveWorkers : WorkerClaim(w)
  \/ \E w \in LiveWorkers : WorkerWake(w)
  \/ \E w \in LiveWorkers : WorkerWork(w, ScriptedOutcome(cur[w]))
  \/ \E w \in LiveWorkers : WorkerRelease(w)
  \/ \E w \in LiveWorkers : LiveConnDrop(w)

LiveSpec ==
  /\ Init /\ [][LiveNext]_vars
  /\ WF_vars(LiveTick)
  /\ WF_vars(Start)
  /\ \A w \in LiveWorkers :
       /\ WF_vars(WorkerClaim(w))
       /\ WF_vars(WorkerWake(w))
       /\ WF_vars(WorkerWork(w, ScriptedOutcome(cur[w])))
       /\ WF_vars(WorkerRelease(w))


\* ----------------------------------------------------------------- claims
\* Connection c takes the advisory lock of job j in this step.
Claims(c, j) == <<c, j>> \in locks' /\ <<c, j>> \notin locks

\* Worker w resolves its claimed job in this step.
Resolves(w) == pc[w] = "claimed" /\ pc'[w] = "releasing"

\* Job j was inserted and is no longer in the store.
Deleted(j) == j < nextID /\ j \notin DOMAIN jobs

\* C1: in every reachable state no job's advisory lock is held by two
\* connections, every worker that is working a job on an open connection
\* holds that job's lock, and so no two such workers (of this pool or of
\* another process) have the same job.
C1_ClaimMutex ==
  /\ \A j \in IDs : Cardinality({c \in Conns : <<c, j>> \in locks}) <= 1
  /\ \A w \in Workers :
       InCycle(w) /\ connAlive[w] => <<w, cur[w]>> \in locks
  /\ \A w, v \in Workers :
       (w # v /\ InCycle(w) /\ InCycle(v) /\ connAlive[w] /\ connAlive[v])
         => cur[w] # cur[v]

\* Three claimers contend for two eligible jobs: a worker of the pool holds
\* one, the other process holds the other, and the second worker of the
\* pool found none and sleeps.
C1_Witness ==
  /\ \A j \in IDs : j \in DOMAIN jobs /\ jobs[j].RunAt <= now
  /\ \E w, v \in Workers, c \in ForeignConns, j \in IDs :
       /\ pc[w] = "claimed" /\ connAlive[w]
       /\ j # cur[w] /\ <<c, j>> \in locks
       /\ pc[v] = "sleeping"


\* C2 as stated: whenever a handler returns no error and requested no
\* reschedule the job is gone from the store once the worker has resolved
\* it, and a deleted job is never in the store or claimed again.
C2_Stated ==
  [][/\ \A w \in Workers :
          Resolves(w) /\ result'[w] = "ok" => cur[w] \notin DOMAIN jobs'
     /\ \A j \in IDs :
          Deleted(j) => Deleted(j)' /\ \A c \in Conns : ~Claims(c, j)]_vars

\* C2, amended: a successful handler return makes the worker delete the
\* job on the connection that holds its lock, which removes exactly that
\* row unless the connection was dropped (then the delete fails and the row
\* stays as it was); a deleted job is never in the store or claimed again.
C2_SuccessDeletes ==
  [][/\ \A w \in Workers :
          Resolves(w) /\ result'[w] = "ok" =>
            IF connAlive[w]
            THEN /\ cur[w] \notin DOMAIN jobs'
                 /\ \A k \in DOMAIN jobs \ {cur[w]} :
                      k \in DOMAIN jobs' /\ jobs'[k] = jobs[k]
            ELSE jobs' = jobs
     /\ \A j \in IDs :
          Deleted(j) => Deleted(j)' /\ \A c \in Conns : ~Claims(c, j)]_vars

\* A worker has just deleted its job after a successful handler return,
\* while another job is still in the store.
C2_Witness ==
  \E w \in Workers :
    /\ pc[w] = "releasing" /\ result[w] = "ok" /\ connAlive[w]
    /\ Deleted(cur[w])
    /\ DOMAIN jobs # {}

\* The retry update of job j, as the claim describes it.
RetryStep(j) ==
  /\ j \in DOMAIN jobs'
  /\ jobs'[j].ErrorCount = jobs[j].ErrorCount + 1
  /\ jobs'[j].LastError = HandlerError
  /\ jobs'[j].RunAt = now + backoff(jobs'[j].ErrorCount)
  /\ jobs'[j].RunAt > jobs[j].RunAt

\* C3 as stated: every handler invocation that returns an error bumps the
\* job's ErrorCount by one, stores the error and backs RunAt off to a
\* strictly later time.
C3_Stated ==
  [][\A w \in Workers :
       (Resolves(w) /\ result'[w] = "error" /\ cur[w] \in DOMAIN jobs)
         => RetryStep(cur[w])]_vars

\* C3, amended: every handler invocation that returns an error while the
\* worker's connection is open bumps the job's ErrorCount by exactly one,
\* stores the error and sets RunAt = now + backoff(ErrorCount), strictly
\* later than before (also at the maximum delay); the ErrorCount of a job
\* is the number of retry updates the store applied to it.  With the
\* connection dropped the update fails and the row is unchanged.
C3_RetryAccounting ==
  /\ [][\A w \in Workers :
          (Resolves(w) /\ result'[w] = "error" /\ cur[w] \in DOMAIN jobs)
            => IF connAlive[w] THEN RetryStep(cur[w]) ELSE jobs' = jobs]_vars
  /\ [](\A j \in DOMAIN jobs : jobs[j].ErrorCount = retried[j])

\* A job failed twice in a row, the second time at the maximum delay.
C3_Witness ==
  \E j \in DOMAIN jobs :
    /\ jobs[j].ErrorCount = 2
    /\ jobs[j].LastError = HandlerError
    /\ jobs[j].RunAt = now + BackoffMax

\* C4: a reschedule requested by the handler changes nothing but Args and
\* RunAt of the claimed job: its ErrorCount, LastError, Queue, Priority and
\* Type stay, it is not deleted, no other row changes; on an open
\* connection Args and RunAt are the handler's.
C4_RescheduleFrame ==
  [][\A w \in Workers :
       (Resolves(w) /\ result'[w] = "resched") =>
         /\ DOMAIN jobs' = DOMAIN jobs
         /\ \A k \in DOMAIN jobs :
              IF k # cur[w] THEN jobs'[k] = jobs[k]
              ELSE /\ jobs'[k].ErrorCount = jobs[k].ErrorCount
                   /\ jobs'[k].LastError = jobs[k].LastError
                   /\ jobs'[k].Queue = jobs[k].Queue
                   /\ jobs'[k].Priority = jobs[k].Priority
                   /\ jobs'[k].Type = jobs[k].Type
                   /\ connAlive[w] =>
                        /\ jobs'[k].Args = "b"
                        /\ jobs'[k].RunAt \in {0, now + 1}]_vars

\* A job that had failed before was rescheduled: its ErrorCount and
\* LastError are still there, beside the new Args.
C4_Witness ==
  \E w \in Workers :
    /\ pc[w] = "releasing" /\ result[w] = "resched" /\ connAlive[w]
    /\ cur[w] \in DOMAIN jobs
    /\ jobs[cur[w]].ErrorCount = 1
    /\ jobs[cur[w]].LastError = HandlerError
    /\ jobs[cur[w]].Args = "b"
    /\ Cardinality(DOMAIN jobs) = 2


\* C5: a call to Shutdown does not return while a worker of the pool is
\* in a handler or has a job it has not resolved and released; a claimed
\* job is only ever left by the worker resolving it (no handler is cut
\* short); and once a call to Shutdown has returned no worker claims.
C5_ShutdownDrains ==
  [][/\ \A c \in Callers :
          (inCall[c] /\ ~inCall'[c]) =>
            \A w \in PoolWorkers : pc[w] \notin {"claimed", "releasing"}
     /\ \A w \in PoolWorkers :
          (pc[w] = "claimed" /\ pc'[w] # "claimed") => pc'[w] = "releasing"
     /\ (\E c \in Callers : calls[c] >= 1) =>
          \A w \in PoolWorkers :
            /\ \A j \in IDs : ~Claims(w, j)
            /\ pc[w] # "claimed" => pc'[w] # "claimed"]_vars

\* Shutdown was called from outside while one worker is in its handler:
\* the call waits, the other worker has exited, and an eligible job that
\* nobody holds stays unclaimed.
C5_Witness ==
  \E c \in ExtCallers, w, v \in PoolWorkers, j \in IDs :
    /\ inCall[c]
    /\ pc[w] = "claimed" /\ HandlerRunning(w) /\ ~inCall[w]
    /\ pc[v] = "exited"
    /\ j \in DOMAIN jobs /\ jobs[j].RunAt <= now
    /\ \A d \in Conns : <<d, j>> \notin locks

\* A step of the pool itself: of one of its workers, or the return of a
\* call to Shutdown.
PoolProgress ==
  \/ \E w \in PoolWorkers : WorkerClaim(w) \/ WorkerWake(w) \/ WorkerExit(w)
  \/ \E w \in PoolWorkers : WorkerClaimError(w)
  \/ \E w \in PoolWorkers, h \in FewHandlerOutcomes : WorkerWork(w, h)
  \/ \E w \in PoolWorkers : WorkerUnknownType(w) \/ WorkerPanic(w)
  \/ \E w \in PoolWorkers : WorkerRelease(w)
  \/ \E c \in Callers : ShutdownReturn(c)

\* C6: Shutdown always returns, whoever calls it and when: while a call to
\* Shutdown is in progress the pool is never stuck, that is, one of its
\* workers can take a step or a call can return.
C6_ShutdownNeverStuck ==
  (\E c \in Callers : inCall[c]) => ENABLED PoolProgress

\* The order of the claim query, from the rows.
KeyLess(j, k) ==
  \/ jobs[j].Priority < jobs[k].Priority
  \/ jobs[j].Priority = jobs[k].Priority /\ jobs[j].RunAt < jobs[k].RunAt
  \/ jobs[j].Priority = jobs[k].Priority /\ jobs[j].RunAt = jobs[k].RunAt
       /\ j < k

\* No connection but c holds the advisory lock of job k.
FreeFor(c, k) == \A d \in Conns \ {c} : <<d, k>> \notin locks

\* C7: the job a claim returns is in the store, due (RunAt <= now) and
\* first in (Priority, RunAt, ID) among the due jobs whose lock no other
\* connection holds; a claim finds no job only when there is no such job,
\* so a job locked elsewhere is skipped, never waited for.
C7_ClaimOrder ==
  [][/\ \A c \in Conns, j \in IDs :
          Claims(c, j) =>
            /\ j \in DOMAIN jobs
            /\ jobs[j].RunAt <= now
            /\ \A k \in DOMAIN jobs \ {j} :
                 (jobs[k].RunAt <= now /\ FreeFor(c, k)) => KeyLess(j, k)
     /\ \A w \in Workers :
          (pc[w] = "loop" /\ pc'[w] = "sleeping") =>
            \A k \in DOMAIN jobs : ~(jobs[k].RunAt <= now /\ FreeFor(w, k))]_vars

\* Before any time has passed a worker holds a job of lower priority while
\* the job that comes first is locked by another connection.
C7_Witness ==
  \E w \in Workers, d \in Conns, j, k \in DOMAIN jobs :
    /\ d # w
    /\ now = 0
    /\ pc[w] = "claimed" /\ connAlive[w] /\ cur[w] = k
    /\ <<d, j>> \in locks
    /\ jobs[j].Priority < jobs[k].Priority
    /\ jobs[j].RunAt = 0 /\ jobs[k].RunAt = 0

\* C8: a job is claimed only when its RunAt is not later than now, so no
\* handler runs for a job that is not due; an inserted row has the RunAt
\* the caller set, or now when it set none.
C8_RunAtEligibility ==
  /\ [][/\ \A c \in Conns, j \in IDs :
             Claims(c, j) => j \in DOMAIN jobs /\ jobs[j].RunAt <= now
        /\ \A j \in IDs :
             (j \notin DOMAIN jobs /\ j \in DOMAIN jobs') =>
               jobs'[j].RunAt \in {now, now + 1}]_vars
  /\ [](\A w \in Workers :
          (pc[w] = "claimed" /\ connAlive[w]) => jobs[cur[w]].RunAt <= now)

\* A job that failed is backed off to a later time, nobody holds it, and a
\* worker that polled found nothing and sleeps.
C8_Witness ==
  \E j \in DOMAIN jobs, w \in Workers :
    /\ jobs[j].ErrorCount >= 1
    /\ jobs[j].RunAt > now
    /\ \A d \in Conns : <<d, j>> \notin locks
    /\ pc[w] = "sleeping"
    /\ \A k \in DOMAIN jobs : jobs[k].RunAt > now

\* The connection of worker w is dropped in this step.
Dropped(w) == connAlive[w] /\ ~connAlive'[w] /\ pc'[w] = pc[w]

\* C9: when the connection of a worker that holds a claimed job is dropped
\* the job's lock goes with it, the row is untouched, and if the job is due
\* the next claim of any other connection gets a job at once; no lock is
\* ever held by a connection that is gone.
C9_CrashRecovery ==
  /\ [][\A w \in Workers :
          Dropped(w) =>
            /\ jobs' = jobs
            /\ \A c \in Conns : <<c, cur[w]>> \notin locks'
            /\ (cur[w] \in DOMAIN jobs /\ jobs[cur[w]].RunAt <= now) =>
                 \A c \in Conns \ {w} :
                   (\A l \in locks : l[1] # c) => ClaimNext(c)' # NoJob]_vars
  /\ [](\A w \in Workers, j \in IDs : <<w, j>> \in locks => connAlive[w])

\* A worker's connection was dropped while its handler ran, and the other
\* worker has claimed the same job.
C9_Witness ==
  \E w, v \in Workers :
    /\ w # v
    /\ pc[w] = "claimed" /\ ~connAlive[w]
    /\ pc[v] = "claimed" /\ connAlive[v]
    /\ cur[v] = cur[w]
    /\ <<v, cur[v]>> \in locks

Idle(w) == pc[w] \in {"notStarted", "loop", "sleeping", "paused", "exited"}

\* C11: every cycle, however it ends (success, error, panic, reschedule,
\* unknown type, a store statement that failed), goes through the release:
\* a claimed job is left only into the release, the release is left only
\* with the worker's lock dropped and its connection returned, and a worker
\* that is polling, sleeping or stopped holds no lock and no connection.
C11_ReleaseOnEveryPath ==
  /\ [][\A w \in Workers :
          /\ (pc[w] = "claimed" /\ pc'[w] # "claimed") => pc'[w] = "releasing"
          /\ (pc[w] = "releasing" /\ pc'[w] # "releasing") =>
               /\ \A j \in IDs : <<w, j>> \notin locks'
               /\ ~connAlive'[w]
          /\ (~Idle(w) /\ Idle(w)') => pc[w] = "releasing"]_vars
  /\ [](\A w \in Workers :
          Idle(w) => /\ \A j \in IDs : <<w, j>> \notin locks
                     /\ ~connAlive[w]
                     /\ cur[w] = NoJob)

\* A cycle that ended in a panic is over: the panic is on the row, the
\* row's lock is free, and the worker that ran it has stopped.
C11_Witness ==
  \E j \in DOMAIN jobs, w \in Workers :
    /\ jobs[j].LastError = PanicError
    /\ \A c \in Conns : <<c, j>> \notin locks
    /\ pc[w] = "exited"
    /\ \A v \in Workers : pc[v] # "claimed" /\ pc[v] # "releasing"

\* Worker w has claimed a job whose Type has no entry in the WorkMap.
HasUnknownType(w) ==
  /\ pc[w] = "claimed"
  /\ cur[w] \in DOMAIN jobs
  /\ jobs[cur[w]].Type \notin WorkMap

\* The retry update that records a missing handler on job j.
UnknownTypeStep(j) ==
  /\ j \in DOMAIN jobs'
  /\ jobs'[j].ErrorCount = jobs[j].ErrorCount + 1
  /\ jobs'[j].LastError = UnknownTypeError
  /\ jobs'[j].RunAt = now + backoff(jobs'[j].ErrorCount)
  /\ jobs'[j].RunAt > jobs[j].RunAt
  /\ \A k \in DOMAIN jobs \ {j} : k \in DOMAIN jobs' /\ jobs'[k] = jobs[k]

\* C12 as stated: a claimed job whose Type has no handler is resolved with
\* no handler invoked, is not deleted, and its ErrorCount is bumped, its
\* LastError set and its RunAt backed off; the worker goes on.
C12_Stated ==
  [][\A w \in Workers :
       (HasUnknownType(w) /\ pc'[w] # "claimed") =>
         /\ result'[w] = "unknown" /\ pc'[w] = "releasing"
         /\ ~inCall'[w]
         /\ UnknownTypeStep(cur[w])]_vars

\* C12, amended: a claimed job whose Type has no handler is resolved with
\* no handler invoked (no handler outcome, no call from a handler) and is
\* never deleted; on an open connection the retry update bumps ErrorCount,
\* stores the error and backs RunAt off, on a dropped connection the update
\* fails and the row is unchanged; either way the worker goes on to the
\* release and the job stays in the store to be claimed again.
C12_UnknownType ==
  [][\A w \in Workers :
       /\ HasUnknownType(w) => ~inCall'[w]
       /\ (HasUnknownType(w) /\ pc'[w] # "claimed") =>
            /\ result'[w] = "unknown" /\ pc'[w] = "releasing"
            /\ cur[w] \in DOMAIN jobs'
            /\ IF connAlive[w] THEN UnknownTypeStep(cur[w])
               ELSE jobs' = jobs]_vars

\* A job without a handler was claimed, put back, claimed again when its
\* backoff was over and put back again; the worker is polling.
C12_Witness ==
  \E j \in DOMAIN jobs, w \in Workers :
    /\ jobs[j].Type \notin WorkMap
    /\ jobs[j].ErrorCount = 2
    /\ jobs[j].LastError = UnknownTypeError
    /\ pc[w] = "loop"
    /\ \A c \in Conns : <<c, j>> \notin locks

\* The rows other than j are as they were.
OthersUnchanged(j) ==
  \A k \in DOMAIN jobs \ {j} : k \in DOMAIN jobs' /\ jobs'[k] = jobs[k]

C14_Stated ==
  [][\A j \in DOMAIN jobs :
       j \in DOMAIN jobs' => jobs'[j].RunAt >= jobs[j].RunAt]_vars

\* Worker w records a failed execution of job j on the connection that
\* holds the job's lock.
RecordsFailure(w, j) ==
  /\ Resolves(w) /\ cur[w] = j
  /\ connAlive[w] /\ <<w, j>> \in locks
  /\ result'[w] \in {"error", "unknown", "panic"}

\* C15: the ErrorCount of a job is 0 when the row is inserted and never
\* negative; while the row is in the store no step lowers it, and a step
\* changes it only by adding one, and only when the worker that holds the
\* job records a failed execution (handler error, panic, missing handler).
\* Success whose delete fails, reschedule, release, connection loss and a
\* claim by another worker leave it as it is.
C15_ErrorCountMonotone ==
  /\ [][\A j \in IDs :
          /\ (j \notin DOMAIN jobs /\ j \in DOMAIN jobs') =>
               jobs'[j].ErrorCount = 0
          /\ (j \in DOMAIN jobs /\ j \in DOMAIN jobs') =>
               /\ jobs'[j].ErrorCount >= jobs[j].ErrorCount
               /\ jobs'[j].ErrorCount <= jobs[j].ErrorCount + 1
               /\ jobs'[j].ErrorCount # jobs[j].ErrorCount =>
                    \E w \in Workers : RecordsFailure(w, j)
          /\ \A w \in Workers :
               (RecordsFailure(w, j) /\ j \in DOMAIN jobs) =>
                 /\ j \in DOMAIN jobs'
                 /\ jobs'[j].ErrorCount = jobs[j].ErrorCount + 1
          /\ \A w \in Workers :
               (Resolves(w) /\ cur[w] = j /\ j \in DOMAIN jobs'
                  /\ result'[w] \in {"ok", "resched"}) =>
                 jobs'[j].ErrorCount = jobs[j].ErrorCount]_vars
  /\ [](\A j \in DOMAIN jobs : jobs[j].ErrorCount >= 0)

\* A job that failed once was claimed by a worker whose connection then
\* dropped; the other worker has claimed it and the first, whose handler
\* returned success, could not delete it: the ErrorCount is still 1.
C15_Witness ==
  \E w, v \in Workers :
    /\ w # v
    /\ pc[w] = "releasing" /\ result[w] = "ok" /\ ~connAlive[w]
    /\ pc[v] = "claimed" /\ connAlive[v] /\ cur[v] = cur[w]
    /\ cur[w] \in DOMAIN jobs
    /\ jobs[cur[w]].ErrorCount = 1

\* C16: a row leaves the store only in the step in which the worker that
\* holds its lock, on its open connection, resolves a successful handler
\* return by delete.  Handler errors and panics, however many, a missing
\* handler, reschedule, failed statements, connection loss, release and
\* the pool's shutdown never remove a row.
C16_NoJobLost ==
  [][\A j \in DOMAIN jobs :
       j \notin DOMAIN jobs' =>
         \E w \in Workers :
           /\ Resolves(w) /\ cur[w] = j /\ result'[w] = "ok"
           /\ connAlive[w] /\ <<w, j>> \in locks
           /\ HandlerRunning(w)]_vars

\* The pool was shut down and the call has returned; a job that failed
\* twice is still in the store, unlocked.
C16_Witness ==
  \E j \in DOMAIN jobs, c \in Callers :
    /\ jobs[j].ErrorCount = 2
    /\ calls[c] = 1
    /\ \A w \in Workers : pc[w] = "exited"
    /\ \A d \in Conns : <<d, j>> \notin locks

\* A store operation of worker w fails in this step: its claim, or the
\* statement that resolves its job on a connection that was dropped.
StoreError(w) ==
  \/ pc[w] = "loop" /\ pc'[w] = "paused"
  \/ Resolves(w) /\ ~connAlive[w]

\* Worker w can go on towards its next claim.
CanGoOn(w) == ENABLED (WorkerRelease(w) \/ WorkerWake(w) \/ WorkerClaim(w))

\* C17: a store operation that fails does not stop the worker: the step
\* leaves the worker in its loop (pausing, or on its way to the release),
\* does not raise the pool's stop signal or touch a call to Shutdown, and
\* changes nothing of the other workers; a worker loop ends only where it
\* polls and only when the pool is stopping; and while the pool is not
\* stopping a worker that pauses, or releases after a failed statement,
\* can go on to claim again.
C17_StoreErrorsTolerated ==
  /\ [][\A w \in Workers :
          /\ StoreError(w) =>
               /\ pc'[w] \in {"paused", "releasing"}
               /\ UNCHANGED <<jobs, started, stopping, inCall, calls>>
               /\ \A v \in Workers \ {w} :
                    /\ pc'[v] = pc[v] /\ cur'[v] = cur[v]
                    /\ connAlive'[v] = connAlive[v]
                    /\ \A j \in IDs : <<v, j>> \in locks' <=> <<v, j>> \in locks
          /\ (pc[w] # "exited" /\ pc'[w] = "exited") =>
               stopping /\ pc[w] \in {"loop", "sleeping", "paused"}]_vars
  /\ [](\A w \in Workers :
          (~stopping /\ pc[w] \in {"paused", "releasing", "loop"})
            => CanGoOn(w))

\* The claim of one worker failed and it pauses; the other worker's
\* connection was dropped, the retry update of its job failed (the row has
\* no error recorded) and it is about to release; the pool is not stopping.
C17_Witness ==
  \E w, v \in Workers :
    /\ pc[w] = "paused"
    /\ pc[v] = "releasing" /\ ~connAlive[v] /\ result[v] = "error"
    /\ cur[v] \in DOMAIN jobs
    /\ jobs[cur[v]].ErrorCount = 0
    /\ ~stopping

\* Worker w is in a handler, on an open connection.
InHandler(w) == pc[w] = "claimed" /\ connAlive[w] /\ HandlerRunning(w)

DueBefore(k, j) ==
  /\ k \in DOMAIN jobs /\ k # j
  /\ jobs[k].Priority < jobs[j].Priority
  /\ jobs[k].RunAt <= now

\* C19: under fair scheduling, with a worker running, registered handlers
\* and no Shutdown, every job in the store is eventually deleted, and in
\* the end the store is empty for good.  A job whose handler fails three
\* times is deleted only after three recorded failures, and the delay of
\* each retry is not shorter than the delay of the one before.  With one
\* worker a job is claimed only when no job of lower priority number is
\* due, so of two jobs enqueued together the one with priority 0 is
\* claimed first and the one with priority 5 after the first is deleted.
C19_EventualCompletion ==
  /\ \A j \in IDs : (j \in DOMAIN jobs) ~> Deleted(j)
  /\ <>[](DOMAIN jobs = {})
  /\ [][\A j \in DOMAIN jobs :
          /\ (j \notin DOMAIN jobs' /\ jobs[j].Args = "flaky") =>
               jobs[j].ErrorCount = FlakyFailures
          /\ (j \in DOMAIN jobs' /\ jobs'[j].ErrorCount > jobs[j].ErrorCount
                /\ jobs[j].ErrorCount >= 1) =>
               jobs'[j].RunAt - now >= backoff(jobs[j].ErrorCount)
          /\ \A w \in LiveWorkers :
               Claims(w, j) => \A k \in IDs : ~DueBefore(k, j)]_vars

\* Two jobs were enqueued; the one that failed three times has been
\* through its three backoff delays, and both are gone from the store.
C19_Witness ==
  /\ nextID = 3
  /\ DOMAIN jobs = {}
  /\ now >= 2 + 3 + 3
  /\ \A w \in LiveWorkers : pc[w] \in {"loop", "sleeping"}

\* The jobs whose advisory lock worker w holds.
LockedBy(w) == {j \in IDs : <<w, j>> \in locks}

\* C20 as stated: every worker holds at most one job's lock, the pool has
\* at most as many jobs locked as it has workers, and whenever a handler
\* is running the worker that runs it holds the lock of its job.
C20_Stated ==
  /\ \A w \in Workers : Cardinality(LockedBy(w)) <= 1
  /\ Cardinality(UNION {LockedBy(w) : w \in Workers}) <= NumWorkers
  /\ \A w \in Workers :
       (pc[w] = "claimed" /\ HandlerRunning(w)) => <<w, cur[w]>> \in locks

\* C20, amended: every worker holds at most one job's lock, and only the
\* lock of the job it has claimed, on the one connection it has leased, so
\* the pool has at most as many jobs locked as it has workers.  A handler
\* is started only for a job whose lock the worker has just taken, and the
\* worker holds that lock while the handler runs for as long as its
\* connection stays open; after the connection is lost the handler goes on
\* running without the lock.
C20_OneJobPerWorker ==
  /\ [](/\ \A w \in Workers :
             /\ Cardinality(LockedBy(w)) <= 1
             /\ \A j \in LockedBy(w) :
                  InCycle(w) /\ cur[w] = j /\ connAlive[w]
             /\ (pc[w] = "claimed" /\ HandlerRunning(w) /\ connAlive[w])
                  => <<w, cur[w]>> \in locks
       /\ Cardinality(UNION {LockedBy(v) : v \in Workers}) <= NumWorkers)
  /\ [][\A w \in Workers :
          (pc[w] # "claimed" /\ pc'[w] = "claimed") =>
            /\ Claims(w, cur'[w])
            /\ connAlive'[w]
            /\ LockedBy(w)' = {cur'[w]}]_vars

\* Both workers of the pool are in a handler, each on its own connection
\* with the lock of its own job: as many jobs are claimed as there are
\* workers.
C20_Witness ==
  /\ \A w \in Workers :
       pc[w] = "claimed" /\ connAlive[w] /\ HandlerRunning(w)
         /\ LockedBy(w) = {cur[w]}
  /\ Cardinality({cur[w] : w \in Workers}) = NumWorkers

====
